---- MODULE Spec2Model ----
(***************************************************************************)
(* Model of src/commands/show.ts: the showProblemInternal command handler, *)
(* its path resolution, resetProblemFileContent and parseProblemsToPicks.  *)
(*                                                                         *)
(* Strings are sequences of one-character strings.  Indices handed to the  *)
(* string helpers are JavaScript's: 0-based, -1 for "not found".           *)
(***************************************************************************)
EXTENDS Integers, Sequences, FiniteSets, TLC

VARIABLES
    pc,               \* position of the current showProblemInternal invocation
    config,           \* the persisted "leetcode" configuration
    defaultLanguage,  \* local of showProblemInternal (line 45)
    language,         \* local of showProblemInternal (line 49)
    result,           \* text returned by leetCodeExecutor.showProblem (line 56)
    filePath,         \* local of showProblemInternal (line 60)
    newFilePath,      \* local of showProblemInternal (line 61)
    files,            \* the file system: path -> content
    scaffoldLines,    \* the lines of the scaffold file the fetch executor generated
    log,              \* what the current invocation did and met, in order
    invocations,      \* number of invocations started so far
    answers,          \* answers given to the set-default-language hint so far
    problems,         \* argument of parseProblemsToPicks
    picks             \* value parseProblemsToPicks resolves to

vars == <<pc, config, defaultLanguage, language, result, filePath, newFilePath,
          files, scaffoldLines, log, invocations, answers, problems, picks>>

Unset == "undefined"

(***************************************************************************)
(* JavaScript string operations used by the source.                        *)
(***************************************************************************)
Min(a, b) == IF a < b THEN a ELSE b
Max(a, b) == IF a > b THEN a ELSE b

\* sub occurs in s at index i
OccursAt(s, sub, i) ==
    i + Len(sub) <= Len(s) /\ SubSeq(s, i + 1, i + Len(sub)) = sub

\* s.indexOf(sub, from): least index >= from at which sub occurs, else -1
IndexOfFrom(s, sub, from) ==
    LET hits == {i \in from..(Len(s) - Len(sub)) : SubSeq(s, i + 1, i + Len(sub)) = sub}
    IN  IF hits = {} THEN -1 ELSE CHOOSE i \in hits : \A j \in hits : i <= j

IndexOf(s, sub) == IndexOfFrom(s, sub, 0)

\* s.lastIndexOf(sub): greatest index at which sub occurs, else -1
LastIndexOf(s, sub) ==
    LET hits == {i \in 0..(Len(s) - Len(sub)) : SubSeq(s, i + 1, i + Len(sub)) = sub}
    IN  IF hits = {} THEN -1 ELSE CHOOSE i \in hits : \A j \in hits : i >= j

\* s.substring(start, end): both clamped to 0..length, swapped when start > end
Substring(s, start, end) ==
    LET a == Max(0, Min(start, Len(s)))
        b == Max(0, Min(end, Len(s)))
    IN  SubSeq(s, Min(a, b) + 1, Max(a, b))

\* s.substring(start)
SubstringFrom(s, start) == Substring(s, start, Len(s))

\* s.replace(pattern, replacement) with a string pattern: the first occurrence only
Replace(s, pattern, replacement) ==
    LET i == IndexOf(s, pattern)
    IN  IF i < 0 THEN s
        ELSE SubSeq(s, 1, i) \o replacement \o SubSeq(s, i + Len(pattern) + 1, Len(s))

(***************************************************************************)
(* Path resolution of showProblemInternal (lines 61-67).                   *)
(***************************************************************************)
IndexLiteral == <<"i", "n", "d", "e", "x">>

\* NewFilePath with the first "." taken for the last: a faulty variant
NewFilePathFirstDot(path) ==
    Replace(path,
            Substring(path, LastIndexOf(path, <<"/">>) + 1, IndexOf(path, <<".">>)),
            IndexLiteral)

\* filePath.replace(filePath.substring(lastIndexOf("/") + 1, lastIndexOf(".")), "index")
NewFilePath(path) ==
    Replace(path,
            Substring(path, LastIndexOf(path, <<"/">>) + 1, LastIndexOf(path, <<".">>)),
            IndexLiteral)

(***************************************************************************)
(* Inputs of the path resolution: a root, up to MaxDepth directory names,  *)
(* a base name and an extension.                                           *)
(***************************************************************************)
MaxDepth == 2

DirNames == { <<"a">>, <<"t", "w", "o">>, IndexLiteral, <<"a", ".", "b">> }
BaseNames == { <<"t", "w", "o">>, IndexLiteral, <<"a">>, <<>> }
Extensions == { <<".", "t", "s">>, <<".", "d", ".", "t", "s">>, <<>> }
Roots == { <<"/">>, <<>> }

RECURSIVE DirParts(_)
DirParts(n) ==
    IF n = 0 THEN { <<>> }
    ELSE DirParts(n - 1) \cup
         { d \o name \o <<"/">> : d \in DirParts(n - 1), name \in DirNames }

PathInputs ==
    { r \o d \o b \o e : r \in Roots, d \in DirParts(MaxDepth), b \in BaseNames, e \in Extensions }

\* No invocation of showProblemInternal is running and none has run.
NoInvocation ==
    /\ config = [defaultLanguage |-> Unset, showSetDefaultLanguageHint |-> TRUE]
    /\ defaultLanguage = Unset
    /\ language = Unset
    /\ result = <<>>
    /\ log = <<>>
    /\ invocations = 0
    /\ answers = {}

InitPath ==
    /\ NoInvocation
    /\ pc = "resolve"
    /\ filePath \in PathInputs
    /\ newFilePath = Unset
    /\ files = <<>>
    /\ scaffoldLines = <<>>
    /\ problems = <<>>
    /\ picks = Unset

\* lines 61-67 applied to filePath
ResolvePath ==
    /\ pc = "resolve"
    /\ newFilePath' = NewFilePath(filePath)
    /\ pc' = "resolved"
    /\ UNCHANGED <<config, defaultLanguage, language, result, filePath, files,
                   scaffoldLines, log, invocations, answers, problems, picks>>

NextPath == ResolvePath

SpecPath == InitPath /\ [][NextPath]_vars

\* The base name of a path is defined when a "." follows the last "/".
HasBaseName(path) == LastIndexOf(path, <<".">>) > LastIndexOf(path, <<"/">>)

BaseNameOf(path) ==
    SubSeq(path, LastIndexOf(path, <<"/">>) + 2, LastIndexOf(path, <<".">>))

\* The path with only its base name replaced by "index".
WithIndexBaseName(path) ==
    SubSeq(path, 1, LastIndexOf(path, <<"/">>) + 1) \o IndexLiteral
        \o SubSeq(path, LastIndexOf(path, <<".">>) + 1, Len(path))

\* C3: the path resolution replaces only the base name (between the last "/"
\* and the last ".") by "index", keeping directory and extension, for every path
\* with a base name, also when the directory part contains the base name.
C3_OnlyBaseNameReplaced ==
    (pc = "resolved" /\ HasBaseName(filePath) /\ BaseNameOf(filePath) # <<>>)
        => newFilePath = WithIndexBaseName(filePath)

\* C8: a path whose base name is already "index" is returned unchanged, also
\* when its directory part contains "index".
C8_IndexIdempotent ==
    (pc = "resolved" /\ HasBaseName(filePath) /\ BaseNameOf(filePath) = IndexLiteral)
        => newFilePath = filePath

C8_Witness ==
    /\ pc = "resolved"
    /\ HasBaseName(filePath)
    /\ BaseNameOf(filePath) = IndexLiteral
    /\ IndexOf(filePath, IndexLiteral) < LastIndexOf(filePath, <<"/">>)
    /\ newFilePath = filePath

(***************************************************************************)
(* resetProblemFileContent (lines 117-135) and the regular expressions it  *)
(* uses.  content.match(/.../g) is null without a match and otherwise the  *)
(* array of all matches, of which the code takes element 0: the leftmost.  *)
(***************************************************************************)
Null == "null"

\* what "." of a regular expression does not match (of these, "\n" and "\r" occur)
IsLineTerminator(c) == c \in {"\n", "\r"}

\* \d
IsDigit(c) == c \in {"0", "1", "2", "3", "4", "5", "6", "7", "8", "9"}

\* where a ".*" that starts at index from ends: the next line terminator, or the end
EndOfLine(s, from) ==
    LET ends == {i \in from..(Len(s) - 1) : IsLineTerminator(s[i + 1])}
    IN  IF ends = {} THEN Len(s) ELSE CHOOSE i \in ends : \A j \in ends : i <= j

\* where a greedy "\d*" that starts at index from ends
EndOfDigits(s, from) ==
    LET ends == {i \in from..Len(s) : i = Len(s) \/ ~IsDigit(s[i + 1])}
    IN  CHOOSE i \in ends : \A j \in ends : i <= j

\* /\* \[\d*\].*/ matches at index i
TitlePatternAt(s, i) ==
    /\ OccursAt(s, <<"*", " ", "[">>, i)
    /\ LET j == EndOfDigits(s, i + 3)
       IN  j < Len(s) /\ s[j + 1] = "]"

\* (content.match(titlePattern))[0], line 118 and 124
MatchTitlePattern(s) ==
    LET hits == {i \in 0..(Len(s) - 1) : TitlePatternAt(s, i)}
    IN  IF hits = {} THEN Null
        ELSE LET i == CHOOSE h \in hits : \A j \in hits : h <= j
             IN  Substring(s, i, EndOfLine(s, i))

HttpsLiteral == <<"h", "t", "t", "p", "s", ":", "/", "/">>

\* (content.match(urlPattern))[0], line 119 and 122
MatchUrlPattern(s) ==
    LET i == IndexOf(s, HttpsLiteral)
    IN  IF i < 0 THEN Null ELSE Substring(s, i, EndOfLine(s, i))

DifficultyTokens == { <<"H", "a", "r", "d">>,
                      <<"M", "e", "d", "i", "u", "m">>,
                      <<"E", "a", "s", "y">> }

\* MatchDifficultyPattern with "" where nothing matches: a faulty variant
MatchDifficultyOrEmpty(s) ==
    LET hits == {i \in 0..(Len(s) - 1) :
                    \E t \in DifficultyTokens : OccursAt(s, t, i)}
    IN  IF hits = {} THEN <<>>
        ELSE LET i == CHOOSE h \in hits : \A j \in hits : h <= j
             IN  CHOOSE t \in DifficultyTokens : OccursAt(s, t, i)

\* (content.match(difficultyPatterm))[0], line 120 and 123
MatchDifficultyPattern(s) ==
    LET hits == {i \in 0..(Len(s) - 1) :
                    \E t \in DifficultyTokens : OccursAt(s, t, i)}
    IN  IF hits = {} THEN Null
        ELSE LET i == CHOOSE h \in hits : \A j \in hits : h <= j
             IN  CHOOSE t \in DifficultyTokens : OccursAt(s, t, i)

\* line 125
IdOfTitle(title) ==
    Substring(title, IndexOf(title, <<"[">>) + 1, IndexOf(title, <<"]">>))

\* TitleText with only the "]" skipped: a faulty variant
TitleTextSkipOne(title) == SubstringFrom(title, IndexOf(title, <<"]">>) + 1)

\* line 126
TitleText(title) == SubstringFrom(title, IndexOf(title, <<"]">>) + 2)

\* the template literal of lines 127-133
ConfigText(id, title, url, difficulty) ==
    <<"\n", "m", "o", "d", "u", "l", "e", ".", "e", "x", "p", "o", "r", "t",
        "s", " ", "=", " ", "{", "\n", " ", " ", " ", " ", "i", "d", ":",
        "'">>
    \o id \o
    <<"'", ",", "\n", " ", " ", " ", " ", "t", "i", "t", "l", "e", ":", "'">>
    \o title \o
    <<"'", ",", "\n", " ", " ", " ", " ", "u", "r", "l", ":", "'">>
    \o url \o
    <<"'", ",", "\n", " ", " ", " ", " ", "d", "i", "f", "f", "i", "c", "u",
        "l", "t", "y", ":", "'">>
    \o difficulty \o
    <<"'", ",", "\n", "}">>

\* lines 122-134 on the content read: what is thrown or what is written
ResetProblemFileContent(content) ==
    LET url == MatchUrlPattern(content)
        difficulty == MatchDifficultyPattern(content)
        title == MatchTitlePattern(content)
    IN  IF url = Null \/ difficulty = Null \/ title = Null
        THEN [threw |-> TRUE, written |-> Null]
        ELSE [threw |-> FALSE,
              written |-> content \o ConfigText(IdOfTitle(title), TitleText(title),
                                                url, difficulty)]

(***************************************************************************)
(* Scaffold files: up to MaxLines lines of the pool below, each followed   *)
(* by "\n".  Every pool line carries what a reader finds in it: whether    *)
(* the title pattern matches it, the id and the title of a line of the     *)
(* form "* [<digits>] <title>", its URL text and its difficulty tokens.    *)
(***************************************************************************)
MaxLines == 3

LinePool == <<
    [ text |-> <<"/", "*", "*">>,
      titlePattern |-> FALSE, id |-> Null, title |-> Null,
      url |-> Null,
      tokens |-> <<>> ],
    [ text |-> <<" ", "*", " ", "[", "1", "]", " ", "T", "w", "o", " ", "S", "u", "m">>,
      titlePattern |-> TRUE, id |-> <<"1">>, title |-> <<"T", "w", "o", " ", "S", "u", "m">>,
      url |-> Null,
      tokens |-> <<>> ],
    [ text |-> <<" ", "*", " ", "[", "1", "2", "3", "]", " ", "T", "w", "o", " ", "S",
            "u", "m">>,
      titlePattern |-> TRUE, id |-> <<"1", "2", "3">>, title |-> <<"T", "w", "o", " ", "S", "u", "m">>,
      url |-> Null,
      tokens |-> <<>> ],
    [ text |-> <<"]", " ", "*", " ", "[", "7", "]", " ", "A", "]", "B", "\r">>,
      titlePattern |-> TRUE, id |-> <<"7">>, title |-> <<"A", "]", "B">>,
      url |-> Null,
      tokens |-> <<>> ],
    [ text |-> <<" ", "*", " ", "[", "1", "]", ".", " ", "T", "w", "o", " ", "S", "u", "m">>,
      titlePattern |-> TRUE, id |-> <<"1">>, title |-> Null,
      url |-> Null,
      tokens |-> <<>> ],
    [ text |-> <<" ", "*", " ", "h", "t", "t", "p", "s", ":", "/", "/", "l", "e", "e",
            "t", "c", "o", "d", "e", ".", "c", "o", "m", "/", "p", "r",
            "o", "b", "l", "e", "m", "s", "/", "t", "w", "o", "-", "s",
            "u", "m">>,
      titlePattern |-> FALSE, id |-> Null, title |-> Null,
      url |-> <<"h", "t", "t", "p", "s", ":", "/", "/", "l", "e", "e", "t", "c", "o",
            "d", "e", ".", "c", "o", "m", "/", "p", "r", "o", "b", "l",
            "e", "m", "s", "/", "t", "w", "o", "-", "s", "u", "m">>,
      tokens |-> <<>> ],
    [ text |-> <<" ", "*", " ", "h", "t", "t", "p", "s", ":", "/", "/", "l", "c", "/",
            "b", " ", "x">>,
      titlePattern |-> FALSE, id |-> Null, title |-> Null,
      url |-> <<"h", "t", "t", "p", "s", ":", "/", "/", "l", "c", "/", "b", " ", "x">>,
      tokens |-> <<>> ],
    [ text |-> <<" ", "*", " ", "D", "i", "f", "f", "i", "c", "u", "l", "t", "y", ":",
            " ", "E", "a", "s", "y">>,
      titlePattern |-> FALSE, id |-> Null, title |-> Null,
      url |-> Null,
      tokens |-> <<<<"E", "a", "s", "y">>>> ],
    [ text |-> <<" ", "*", " ", "M", "e", "d", "i", "u", "m">>,
      titlePattern |-> FALSE, id |-> Null, title |-> Null,
      url |-> Null,
      tokens |-> <<<<"M", "e", "d", "i", "u", "m">>>> ],
    [ text |-> <<" ", "*", " ", "H", "a", "r", "d">>,
      titlePattern |-> FALSE, id |-> Null, title |-> Null,
      url |-> Null,
      tokens |-> <<<<"H", "a", "r", "d">>>> ],
    [ text |-> <<" ", "*", " ", "[", "2", "]", " ", "h", "t", "t", "p", "s", ":", "/",
            "/", "l", "c", "/", "E", "a", "s", "y">>,
      titlePattern |-> TRUE, id |-> <<"2">>, title |-> <<"h", "t", "t", "p", "s", ":", "/", "/", "l", "c", "/", "E", "a", "s", "y">>,
      url |-> <<"h", "t", "t", "p", "s", ":", "/", "/", "l", "c", "/", "E", "a", "s", "y">>,
      tokens |-> <<<<"E", "a", "s", "y">>>> ],
    [ text |-> <<" ", "*", " ", "[", "a", "]", " ", "N", "o", "t">>,
      titlePattern |-> FALSE, id |-> Null, title |-> Null,
      url |-> Null,
      tokens |-> <<>> ],
    [ text |-> <<" ", "*", "/">>,
      titlePattern |-> FALSE, id |-> Null, title |-> Null,
      url |-> Null,
      tokens |-> <<>> ]
>>

\* the scaffold of the end-to-end scenario: "/**", " * [1]. Two Sum", the URL,
\* " * Difficulty: Easy", " */"
EndToEndLines == <<1, 5, 6, 8, 13>>

RECURSIVE LineSeqs(_)
LineSeqs(n) ==
    IF n = 0 THEN { <<>> }
    ELSE LineSeqs(n - 1) \cup
         { Append(ls, k) : ls \in LineSeqs(n - 1), k \in 1..Len(LinePool) }

ScaffoldInputs == LineSeqs(MaxLines) \cup { EndToEndLines }

RECURSIVE ScaffoldText(_)
ScaffoldText(ls) ==
    IF ls = <<>> THEN <<>>
    ELSE LinePool[Head(ls)].text \o <<"\n">> \o ScaffoldText(Tail(ls))

ScaffoldPath == <<"/", "w", "/", "s", "r", "c", "/", "1", "/", "i", "n", "d", "e", "x",
        ".", "t", "s">>

InitReset ==
    /\ NoInvocation
    /\ pc = "reset"
    /\ scaffoldLines \in ScaffoldInputs
    /\ files = (ScaffoldPath :> ScaffoldText(scaffoldLines))
    /\ filePath = ScaffoldPath
    /\ newFilePath = ScaffoldPath
    /\ problems = <<>>
    /\ picks = Unset

\* what the file system does to the read (line 139) and the write (line 134)
IoOutcomes == {"ok", "readFails", "writeFails"}

\* ResetFile that goes on before the content is written: a faulty variant
ResetFileNotAwaited(io, done, thrown) ==
    /\ files' = files
    /\ log' = log
    /\ pc' = done

\* await resetProblemFileContent(newFilePath), lines 117-135 and 137-147:
\* control goes to pc value done when it returns and to thrown when it throws
ResetFile(io, done, thrown) ==
    IF newFilePath \notin DOMAIN files \/ io = "readFails"
    THEN /\ files' = files
         /\ log' = Append(log, "readFailed")
         /\ pc' = thrown
    ELSE LET r == ResetProblemFileContent(files[newFilePath])
         IN  IF r.threw
             THEN /\ files' = files
                  /\ log' = Append(log, "matchFailed")
                  /\ pc' = thrown
             ELSE IF io = "writeFails"
             THEN /\ files' = files
                  /\ log' = Append(log, "writeFailed")
                  /\ pc' = thrown
             ELSE /\ files' = [files EXCEPT ![newFilePath] = r.written]
                  /\ log' = Append(log, "write")
                  /\ pc' = done

ResetScaffold ==
    /\ pc = "reset"
    /\ \E io \in IoOutcomes : ResetFile(io, "resetDone", "resetThrew")
    /\ UNCHANGED <<config, defaultLanguage, language, result, filePath, newFilePath,
                   scaffoldLines, invocations, answers, problems, picks>>

NextReset == ResetScaffold

SpecReset == InitReset /\ [][NextReset]_vars

\* What the pool says of a scaffold: its lines the title pattern matches, its
\* URL lines and its difficulty tokens.
TitleLinesOf(ls) == {k \in DOMAIN ls : LinePool[ls[k]].titlePattern}
UrlLinesOf(ls) == {k \in DOMAIN ls : LinePool[ls[k]].url # Null}

RECURSIVE TokensOf(_)
TokensOf(ls) ==
    IF ls = <<>> THEN <<>> ELSE LinePool[Head(ls)].tokens \o TokensOf(Tail(ls))

TheTitleLine(ls) == LinePool[ls[CHOOSE k \in TitleLinesOf(ls) : TRUE]]
TheUrlLine(ls) == LinePool[ls[CHOOSE k \in UrlLinesOf(ls) : TRUE]]

\* exactly one title line, of the form "* [<digits>] <title>", exactly one URL
\* line and exactly one difficulty token
WellFormed(ls) ==
    /\ Cardinality(TitleLinesOf(ls)) = 1
    /\ TheTitleLine(ls).title # Null
    /\ Cardinality(UrlLinesOf(ls)) = 1
    /\ Len(TokensOf(ls)) = 1

\* C1: for a scaffold with exactly one title line "* [<digits>] <title>", one URL
\* line and one difficulty token, what is written is the original content followed
\* by one metadata block with the digits as id, the text after "] " as title, the
\* URL text as url and the token as difficulty; and the transformation itself does
\* not fail on such a scaffold.
C1_WellFormedScaffold ==
    WellFormed(scaffoldLines) =>
        /\ pc = "resetDone" =>
              files[ScaffoldPath] =
                  ScaffoldText(scaffoldLines)
                      \o ConfigText(TheTitleLine(scaffoldLines).id,
                                    TheTitleLine(scaffoldLines).title,
                                    TheUrlLine(scaffoldLines).url,
                                    TokensOf(scaffoldLines)[1])
        /\ pc = "resetThrew" => log[Len(log)] \in {"readFailed", "writeFailed"}

C1_Witness ==
    /\ pc = "resetDone"
    /\ WellFormed(scaffoldLines)
    /\ TheTitleLine(scaffoldLines).id = <<"1", "2", "3">>
    /\ TheTitleLine(scaffoldLines).title = <<"T", "w", "o", " ", "S", "u", "m">>
    /\ Len(files[ScaffoldPath]) > Len(ScaffoldText(scaffoldLines))

EndToEndUrl == <<"h", "t", "t", "p", "s", ":", "/", "/", "l", "e", "e", "t", "c", "o",
        "d", "e", ".", "c", "o", "m", "/", "p", "r", "o", "b", "l", "e",
        "m", "s", "/", "t", "w", "o", "-", "s", "u", "m">>

\* C2 as stated: for the scaffold whose title line is " * [1]. Two Sum", the block
\* appended has id '1', title 'Two Sum' and difficulty 'Easy'.
C2_DottedTitleTrimmed ==
    (pc = "resetDone" /\ scaffoldLines = EndToEndLines) =>
        files[ScaffoldPath] =
            ScaffoldText(EndToEndLines)
                \o ConfigText(<<"1">>, <<"T", "w", "o", " ", "S", "u", "m">>,
                              EndToEndUrl, <<"E", "a", "s", "y">>)

\* C2 amended: for that scaffold the block appended has id '1', title ' Two Sum'
\* (the "." is dropped, the space after it is kept) and difficulty 'Easy'.
C2_DottedTitleKeepsSpace ==
    (pc = "resetDone" /\ scaffoldLines = EndToEndLines) =>
        files[ScaffoldPath] =
            ScaffoldText(EndToEndLines)
                \o ConfigText(<<"1">>, <<" ", "T", "w", "o", " ", "S", "u", "m">>,
                              EndToEndUrl, <<"E", "a", "s", "y">>)

C2_Witness ==
    /\ pc = "resetDone"
    /\ scaffoldLines = EndToEndLines
    /\ Len(files[ScaffoldPath]) > Len(ScaffoldText(EndToEndLines))

\* C4: the transformation throws whenever the content lacks a title line, lacks a
\* URL or lacks a difficulty token, and whenever it throws the file is unchanged.
C4_MissingPatternThrows ==
    /\ ( /\ pc \in {"resetDone", "resetThrew"}
         /\ \/ TitleLinesOf(scaffoldLines) = {}
            \/ UrlLinesOf(scaffoldLines) = {}
            \/ TokensOf(scaffoldLines) = <<>> )
       => pc = "resetThrew"
    /\ pc = "resetThrew" => files[ScaffoldPath] = ScaffoldText(scaffoldLines)

\* the difficulty token alone is missing, and the read succeeded
C4_Witness ==
    /\ pc = "resetThrew"
    /\ log = <<"matchFailed">>
    /\ TitleLinesOf(scaffoldLines) # {}
    /\ UrlLinesOf(scaffoldLines) # {}
    /\ TokensOf(scaffoldLines) = <<>>
    /\ files[ScaffoldPath] = ScaffoldText(scaffoldLines)

\* the title line alone is missing
C4_WitnessNoTitle ==
    /\ pc = "resetThrew"
    /\ log = <<"matchFailed">>
    /\ TitleLinesOf(scaffoldLines) = {}
    /\ UrlLinesOf(scaffoldLines) # {}
    /\ TokensOf(scaffoldLines) # <<>>

\* the URL alone is missing
C4_WitnessNoUrl ==
    /\ pc = "resetThrew"
    /\ log = <<"matchFailed">>
    /\ TitleLinesOf(scaffoldLines) # {}
    /\ UrlLinesOf(scaffoldLines) = {}
    /\ TokensOf(scaffoldLines) # <<>>

(***************************************************************************)
(* parseProblemsToPicks and parseProblemDecorator (lines 94-115).          *)
(***************************************************************************)
CheckGlyph == <<"$", "(", "c", "h", "e", "c", "k", ")", " ">>
CrossGlyph == <<"$", "(", "x", ")", " ">>
LockGlyph == <<"$", "(", "l", "o", "c", "k", ")", " ">>

\* ParseProblemDecorator with the lock tested first: a faulty variant
ParseProblemDecoratorLockFirst(state, locked) ==
    IF locked THEN LockGlyph
    ELSE CASE state = "AC" -> CheckGlyph
           [] state = "NotAC" -> CrossGlyph
           [] OTHER -> <<>>

\* lines 106-115
ParseProblemDecorator(state, locked) ==
    CASE state = "AC" -> CheckGlyph
      [] state = "NotAC" -> CrossGlyph
      [] OTHER -> IF locked THEN LockGlyph ELSE <<>>

\* the object literal of lines 96-101
PickOf(problem) ==
    [ label |-> ParseProblemDecorator(problem.state, problem.locked)
                    \o problem.id \o <<".">> \o problem.name,
      description |-> <<>>,
      detail |-> <<"A", "C", " ", "r", "a", "t", "e", ":", " ">>
                     \o problem.passRate \o
                 <<",", " ", "D", "i", "f", "f", "i", "c", "u", "l", "t", "y", ":", " ">>
                     \o problem.difficulty,
      value |-> problem.id ]

\* (await p).map(...), lines 96-102
ParseProblemsToPicks(p) == [i \in 1..Len(p) |-> PickOf(p[i])]

(***************************************************************************)
(* Inputs of parseProblemsToPicks: up to MaxProblems problems.             *)
(***************************************************************************)
MaxProblems == 2

ProblemStates == {"AC", "NotAC", "Unknown"}

ProblemInputs ==
    [ id : { <<"1">>, <<"4", "2">> },
      name : { <<"T", "w", "o">> },
      state : ProblemStates,
      locked : BOOLEAN,
      passRate : { <<"5", "0", "%">> },
      difficulty : { <<"E", "a", "s", "y">> } ]

RECURSIVE ProblemLists(_)
ProblemLists(n) ==
    IF n = 0 THEN { <<>> }
    ELSE ProblemLists(n - 1) \cup
         { Append(l, q) : l \in ProblemLists(n - 1), q \in ProblemInputs }

InitPicks ==
    /\ NoInvocation
    /\ pc = "picks"
    /\ problems \in ProblemLists(MaxProblems)
    /\ picks = Unset
    /\ filePath = <<>>
    /\ newFilePath = Unset
    /\ files = <<>>
    /\ scaffoldLines = <<>>

\* parseProblemsToPicks resolves
ResolvePicks ==
    /\ pc = "picks"
    /\ picks' = ParseProblemsToPicks(problems)
    /\ pc' = "picked"
    /\ UNCHANGED <<config, defaultLanguage, language, result, filePath, newFilePath,
                   files, scaffoldLines, log, invocations, answers, problems>>

NextPicks == ResolvePicks

SpecPicks == InitPicks /\ [][NextPicks]_vars

\* the glyph of the 3-way rule
GlyphOf(problem) ==
    IF problem.state = "AC" THEN CheckGlyph
    ELSE IF problem.state = "NotAC" THEN CrossGlyph
    ELSE IF problem.locked THEN LockGlyph
    ELSE <<>>

\* C9: the picks are as many as the problems and in their order; pick i has the
\* id of problem i as value and a label that starts with the glyph of the 3-way
\* rule (check for AC, cross for NotAC, otherwise lock if locked, else nothing),
\* so that a locked problem in state AC or NotAC shows no lock glyph.
C9_PicksFollowProblems ==
    pc = "picked" =>
        /\ Len(picks) = Len(problems)
        /\ \A i \in 1..Len(problems) :
              /\ picks[i].value = problems[i].id
              /\ picks[i].label =
                     GlyphOf(problems[i]) \o problems[i].id \o <<".">> \o problems[i].name
              /\ (problems[i].state \in {"AC", "NotAC"}
                     => SubSeq(picks[i].label, 1, Len(LockGlyph)) # LockGlyph)

\* two problems with different ids, the first locked and accepted
C9_Witness ==
    /\ pc = "picked"
    /\ Len(problems) = 2
    /\ problems[1].locked /\ problems[1].state = "AC"
    /\ problems[2].locked /\ problems[2].state = "Unknown"
    /\ problems[1].id # problems[2].id
    /\ picks[1].value = problems[1].id

\* the empty list gives the empty list
C9_WitnessEmpty == pc = "picked" /\ problems = <<>> /\ picks = <<>>

(***************************************************************************)
(* showProblemInternal (lines 42-92).  One action per point at which the   *)
(* function is suspended on an external call; what runs between two such   *)
(* points is part of one action.  Invocations run one after another, and   *)
(* a configuration update (lines 84, 86) has taken effect when the next    *)
(* invocation reads the configuration.                                     *)
(***************************************************************************)
MaxInvocations == 2

\* the supported languages of ../shared, of which two are kept
languages == {"cpp", "java"}

\* values the user settings can hold for leetcode.defaultLanguage
DefaultLanguageSettings == {Unset, "", "klingon", "cpp"}

\* a value that an "if" or "||" of JavaScript takes as true
Truthy(v) == v \notin {Unset, ""}

\* ValidatedDefault without the lookup in languages: a faulty variant
ValidatedDefaultUnchecked(value) == value

\* lines 45-48: the default language once checked against languages
ValidatedDefault(value) ==
    IF Truthy(value) /\ value \notin languages THEN Unset ELSE value

\* ShowsHint without the hint flag: a faulty variant
ShowsHintIgnoringFlag(default, cfg) == ~Truthy(default)

\* the condition of line 76
ShowsHint(default, cfg) == ~Truthy(default) /\ cfg.showSetDefaultLanguageHint

\* Caught without the prompt: a faulty variant
CaughtSilently(l) == l

\* the catch block, lines 89-91: the one error prompt
Caught(l) == Append(l, "errorPrompt")

\* \s
IsSpace(c) == c \in {" ", "\t", "\n", "\r"}

\* where a greedy "\s*" that starts at index from ends
EndOfSpaces(s, from) ==
    LET ends == {i \in from..Len(s) : i = Len(s) \/ ~IsSpace(s[i + 1])}
    IN  CHOOSE i \in ends : \A j \in ends : i <= j

\* s.trim()
Trim(s) ==
    LET inked == {i \in 1..Len(s) : ~IsSpace(s[i])}
    IN  IF inked = {} THEN <<>>
        ELSE SubSeq(s, CHOOSE i \in inked : \A j \in inked : i <= j,
                       CHOOSE i \in inked : \A j \in inked : i >= j)

SourceCodeMarker == <<"*", " ", "S", "o", "u", "r", "c", "e", " ", "C", "o", "d", "e", ":">>

\* lines 57-60: match[1].trim() of /\* Source Code:\s*(.*)/, Null without a match
SourceCodePath(text) ==
    LET i == IndexOf(text, SourceCodeMarker)
    IN  IF i < 0 THEN Null
        ELSE LET j == EndOfSpaces(text, i + Len(SourceCodeMarker))
             IN  Trim(Substring(text, j, EndOfLine(text, j)))

\* fs.renameSync(old, new) on a file that exists, line 68
Renamed(fs, old, new) ==
    [q \in (DOMAIN fs \ {old}) \cup {new} |-> IF q = new THEN fs[old] ELSE fs[q]]

(***************************************************************************)
(* What the collaborators hand to showProblemInternal.                     *)
(***************************************************************************)
ExecutorPath == <<"/", "w", "/", "s", "r", "c", "/", "1", "/", "1", ".", "t", "w", "o",
        ".", "t", "s">>
WinPath == <<"C", ":", "\\", "w", "\\", "1", ".", "t", "w", "o", ".", "t", "s">>

\* paths the fetch executor reports, and what wsl.toWinPath makes of them
ExecutorPaths == {ExecutorPath, ScaffoldPath}
WinPaths == {WinPath}

\* scaffolds the fetch executor generates: a well-formed one, and one without a
\* difficulty token
ExecutorScaffolds == { <<2, 7, 8>>, <<2, 7>> }

\* the text the fetch executor prints when it names the file it generated
ResultNaming(path) ==
    <<"*", " ", "E", "a", "s", "y", "\n", "*", " ", "S", "o", "u", "r", "c",
        "e", " ", "C", "o", "d", "e", ":", " ", " ", " ">>
    \o path \o
    <<" ", "\n", "G", "i", "v", "e", "n", "\n">>

\* the text the fetch executor prints when it names no file
ResultWithoutPath == <<"*", " ", "E", "a", "s", "y", "\n", "G", "i", "v", "e", "n", "\n">>

Init ==
    /\ pc = "idle"
    /\ config \in [defaultLanguage : DefaultLanguageSettings,
                   showSetDefaultLanguageHint : BOOLEAN]
    /\ defaultLanguage = Unset
    /\ language = Unset
    /\ result = <<>>
    /\ filePath = <<>>
    /\ newFilePath = <<>>
    /\ files = <<>>
    /\ scaffoldLines = <<>>
    /\ log = <<>>
    /\ invocations = 0
    /\ answers = {}
    /\ problems = <<>>
    /\ picks = Unset

\* lines 42-49 up to the first suspension
Start ==
    /\ pc \in {"idle", "returned"}
    /\ invocations < MaxInvocations
    /\ invocations' = invocations + 1
    /\ defaultLanguage' = ValidatedDefault(config.defaultLanguage)
    /\ result' = <<>>
    /\ filePath' = <<>>
    /\ newFilePath' = <<>>
    /\ IF Truthy(defaultLanguage')
       THEN /\ language' = defaultLanguage'
            /\ log' = <<>>
            /\ pc' = "selectFolder"
       ELSE /\ language' = Unset
            /\ log' = <<"languagePrompt">>
            /\ pc' = "languagePrompt"
    /\ UNCHANGED <<config, files, scaffoldLines, answers, problems, picks>>

\* the quick pick of line 49 resolves with a language
LanguagePicked ==
    /\ pc = "languagePrompt"
    /\ \E choice \in languages : language' = choice
    /\ pc' = "selectFolder"
    /\ UNCHANGED <<config, defaultLanguage, result, filePath, newFilePath, files,
                   scaffoldLines, log, invocations, answers, problems, picks>>

\* the quick pick of line 49 resolves with undefined: lines 50-52
LanguageCancelled ==
    /\ pc = "languagePrompt"
    /\ log' = Append(log, "languageCancelled")
    /\ pc' = "returned"
    /\ UNCHANGED <<config, defaultLanguage, language, result, filePath, newFilePath,
                   files, scaffoldLines, invocations, answers, problems, picks>>

\* an awaited call rejects, or a synchronous one throws: control is in the catch block
Throws(event) ==
    /\ log' = Append(log, event)
    /\ pc' = "catch"

LanguageFails ==
    /\ pc = "languagePrompt"
    /\ Throws("languageFailed")
    /\ UNCHANGED <<config, defaultLanguage, language, result, filePath, newFilePath,
                   files, scaffoldLines, invocations, answers, problems, picks>>

\* selectWorkspaceFolder of line 54 resolves; fse.ensureDir of line 55 is called
FolderSelected ==
    /\ pc = "selectFolder"
    /\ log' = Append(log, "ensureDir")
    /\ pc' = "ensureDir"
    /\ UNCHANGED <<config, defaultLanguage, language, result, filePath, newFilePath,
                   files, scaffoldLines, invocations, answers, problems, picks>>

FolderFails ==
    /\ pc = "selectFolder"
    /\ Throws("folderFailed")
    /\ UNCHANGED <<config, defaultLanguage, language, result, filePath, newFilePath,
                   files, scaffoldLines, invocations, answers, problems, picks>>

\* fse.ensureDir resolves; leetCodeExecutor.showProblem of line 56 is called
DirEnsured ==
    /\ pc = "ensureDir"
    /\ log' = Append(log, "fetch")
    /\ pc' = "fetch"
    /\ UNCHANGED <<config, defaultLanguage, language, result, filePath, newFilePath,
                   files, scaffoldLines, invocations, answers, problems, picks>>

DirFails ==
    /\ pc = "ensureDir"
    /\ Throws("ensureDirFailed")
    /\ UNCHANGED <<config, defaultLanguage, language, result, filePath, newFilePath,
                   files, scaffoldLines, invocations, answers, problems, picks>>

\* lines 61-69 up to the suspension in resetProblemFileContent, for the file
\* system fs as the fetch executor left it
RenameToIndex(path, fs) ==
    /\ filePath' = path
    /\ newFilePath' = NewFilePath(path)
    /\ \E renameSync \in {"ok", "throws"} :
          IF path \in DOMAIN fs /\ renameSync = "ok"
          THEN /\ files' = Renamed(fs, path, NewFilePath(path))
               /\ log' = Append(log, "rename")
               /\ pc' = "reset"
          ELSE /\ files' = fs
               /\ Throws("renameFailed")

\* the fetch executor resolves with a text that names the file it generated, or
\* that it failed to generate; lines 57-69, or 57-60 under WSL
FetchResolves ==
    /\ pc = "fetch"
    /\ \E reported \in ExecutorPaths, useWsl \in BOOLEAN,
          generates \in BOOLEAN, generated \in ExecutorScaffolds :
          LET seen == IF useWsl THEN WinPath ELSE reported
              fs == IF ~generates THEN files
                    ELSE [q \in DOMAIN files \cup {seen} |->
                             IF q = seen THEN ScaffoldText(generated) ELSE files[q]]
          IN  /\ result' = ResultNaming(reported)
              /\ scaffoldLines' = IF generates THEN generated ELSE scaffoldLines
              /\ IF useWsl
                 THEN /\ files' = fs
                      /\ pc' = "toWinPath"
                      /\ UNCHANGED <<filePath, newFilePath, log>>
                 ELSE RenameToIndex(SourceCodePath(result'), fs)
    /\ UNCHANGED <<config, defaultLanguage, language, invocations, answers,
                   problems, picks>>

\* the fetch executor resolves with a text without a "* Source Code:" line: line 73
FetchResolvesWithoutPath ==
    /\ pc = "fetch"
    /\ result' = ResultWithoutPath
    /\ IF SourceCodePath(result') = Null
       THEN /\ Throws("noSourceCode")
            /\ UNCHANGED <<filePath, newFilePath, files>>
       ELSE RenameToIndex(SourceCodePath(result'), files)
    /\ UNCHANGED <<config, defaultLanguage, language, scaffoldLines, invocations,
                   answers, problems, picks>>

FetchFails ==
    /\ pc = "fetch"
    /\ Throws("fetchFailed")
    /\ UNCHANGED <<config, defaultLanguage, language, result, filePath, newFilePath,
                   files, scaffoldLines, invocations, answers, problems, picks>>

\* wsl.toWinPath of line 60 resolves; lines 61-69
WinPathResolved ==
    /\ pc = "toWinPath"
    /\ \E translated \in WinPaths : RenameToIndex(translated, files)
    /\ UNCHANGED <<config, defaultLanguage, language, result, scaffoldLines,
                   invocations, answers, problems, picks>>

WinPathFails ==
    /\ pc = "toWinPath"
    /\ Throws("toWinPathFailed")
    /\ UNCHANGED <<config, defaultLanguage, language, result, filePath, newFilePath,
                   files, scaffoldLines, invocations, answers, problems, picks>>

\* resetProblemFileContent of line 69 settles; showTextDocument of line 70 is called
ContentReset ==
    /\ pc = "reset"
    /\ \E io \in IoOutcomes : ResetFile(io, "open", "catch")
    /\ UNCHANGED <<config, defaultLanguage, language, result, filePath, newFilePath,
                   scaffoldLines, invocations, answers, problems, picks>>

\* showTextDocument resolves; execSync of line 71 runs the build command; line 76
DocumentShown ==
    /\ pc = "open"
    /\ \E execSync \in {"ok", "throws"} :
          IF execSync = "throws"
          THEN /\ log' = log \o <<"open", "build", "buildFailed">>
               /\ pc' = "catch"
          ELSE IF ShowsHint(defaultLanguage, config)
          THEN /\ log' = log \o <<"open", "build", "hint">>
               /\ pc' = "hint"
          ELSE /\ log' = log \o <<"open", "build">>
               /\ pc' = "returned"
    /\ UNCHANGED <<config, defaultLanguage, language, result, filePath, newFilePath,
                   files, scaffoldLines, invocations, answers, problems, picks>>

DocumentFails ==
    /\ pc = "open"
    /\ Throws("openFailed")
    /\ UNCHANGED <<config, defaultLanguage, language, result, filePath, newFilePath,
                   files, scaffoldLines, invocations, answers, problems, picks>>

\* the hint of lines 77-82 is answered or dismissed; lines 83-88
HintAnswered ==
    /\ pc = "hint"
    /\ \E choice \in {"yes", "no", "never", "dismissed"} :
          /\ answers' = answers \cup {choice}
          /\ config' =
                CASE choice = "yes" -> [config EXCEPT !.defaultLanguage = language]
                  [] choice = "never" ->
                        [config EXCEPT !.showSetDefaultLanguageHint = FALSE]
                  [] OTHER -> config
          /\ log' = Append(log, choice)
    /\ pc' = "returned"
    /\ UNCHANGED <<defaultLanguage, language, result, filePath, newFilePath, files,
                   scaffoldLines, invocations, problems, picks>>

HintFails ==
    /\ pc = "hint"
    /\ Throws("hintFailed")
    /\ UNCHANGED <<config, defaultLanguage, language, result, filePath, newFilePath,
                   files, scaffoldLines, invocations, answers, problems, picks>>

\* lines 89-91
Catch ==
    /\ pc = "catch"
    /\ log' = Caught(log)
    /\ pc' = "returned"
    /\ UNCHANGED <<config, defaultLanguage, language, result, filePath, newFilePath,
                   files, scaffoldLines, invocations, answers, problems, picks>>

Next ==
    \/ Start
    \/ LanguagePicked
    \/ LanguageCancelled
    \/ LanguageFails
    \/ FolderSelected
    \/ FolderFails
    \/ DirEnsured
    \/ DirFails
    \/ FetchResolves
    \/ FetchResolvesWithoutPath
    \/ FetchFails
    \/ WinPathResolved
    \/ WinPathFails
    \/ ContentReset
    \/ DocumentShown
    \/ DocumentFails
    \/ HintAnswered
    \/ HintFails
    \/ Catch

Spec == Init /\ [][Next]_vars

(***************************************************************************)
(* Claims about showProblemInternal.                                       *)
(***************************************************************************)
Count(l, e) == Cardinality({i \in DOMAIN l : l[i] = e})

Pipeline == <<"fetch", "rename", "write", "open", "build">>

IsPipelineEffect(e) == e \in {"fetch", "rename", "write", "open", "build"}

\* the fetch, rename, write, open and build of the current invocation, in order
EffectsOf(l) == SelectSeq(l, IsPipelineEffect)

\* failures of language resolution, output-directory resolution, the fetch, the
\* rename, the scaffold transformation, the editor open and the build command
ClaimedFailures ==
    {"languageFailed", "folderFailed", "ensureDirFailed", "fetchFailed",
     "noSourceCode", "renameFailed", "readFailed", "matchFailed", "writeFailed",
     "openFailed", "buildFailed"}

\* C5: a failure of language resolution, output-directory resolution, the fetch
\* (a result without "* Source Code:" included), the rename, the transformation,
\* the editor open or the build is followed by the error prompt and nothing else,
\* the invocation ends with exactly one error prompt, and the fetch executor is
\* invoked at most once per invocation.
C5_OneErrorPrompt ==
    /\ Count(log, "fetch") <= 1
    /\ \A i \in DOMAIN log :
          log[i] \in ClaimedFailures =>
              \/ pc = "catch" /\ i = Len(log) /\ Count(log, "errorPrompt") = 0
              \/ /\ pc = "returned"
                 /\ i = Len(log) - 1
                 /\ log[Len(log)] = "errorPrompt"
                 /\ Count(log, "errorPrompt") = 1

\* an invocation ended after the scaffold transformation threw
C5_Witness ==
    /\ pc = "returned"
    /\ Len(log) >= 2
    /\ log[Len(log) - 1] = "matchFailed"
    /\ log[Len(log)] = "errorPrompt"
    /\ Count(log, "fetch") = 1

\* C6: the language prompt is shown exactly when the persisted default language
\* is not one of the supported languages, and otherwise the persisted default is
\* the language used; when the prompt is cancelled the invocation returns having
\* shown no error prompt, created no directory, invoked no fetch, renamed and
\* written no file and changed no setting.
C6_DefaultOrPrompt ==
    /\ [](/\ pc \in {"languagePrompt", "selectFolder"} =>
                /\ Count(log, "languagePrompt") = 0
                      <=> config.defaultLanguage \in languages
                /\ Count(log, "languagePrompt") = 0
                      => language = config.defaultLanguage
          /\ Count(log, "languageCancelled") > 0 =>
                pc = "returned" /\ log = <<"languagePrompt", "languageCancelled">>)
    /\ [][(pc = "languagePrompt" /\ pc' = "returned") =>
             /\ log' = <<"languagePrompt", "languageCancelled">>
             /\ config' = config
             /\ files' = files]_vars

\* an invalid persisted default, a prompt, and the user cancelled it
C6_Witness ==
    /\ pc = "returned"
    /\ config.defaultLanguage = "klingon"
    /\ log = <<"languagePrompt", "languageCancelled">>

\* C7: the effects of an invocation are a prefix of fetch, rename, write, open,
\* build in that order; rename, write, open and build happen only when the fetch
\* result held a "* Source Code:" line; and an invocation that ran to the build
\* without error wrote the file's content exactly once.
C7_PipelineOrder ==
    /\ Len(EffectsOf(log)) <= Len(Pipeline)
    /\ EffectsOf(log) = SubSeq(Pipeline, 1, Len(EffectsOf(log)))
    /\ Len(EffectsOf(log)) >= 2 => SourceCodePath(result) # Null
    /\ (pc = "returned" /\ Count(log, "build") > 0 /\ Count(log, "errorPrompt") = 0)
          => Count(log, "write") = 1

\* an invocation ran the whole pipeline without error
C7_Witness ==
    /\ pc = "returned"
    /\ EffectsOf(log) = Pipeline
    /\ Count(log, "errorPrompt") = 0
    /\ newFilePath \in DOMAIN files
    /\ Len(files[newFilePath]) > Len(ScaffoldText(scaffoldLines))

C10_WitnessYes ==
    /\ pc = "selectFolder"
    /\ "yes" \in answers
    /\ log = <<>>
    /\ language = config.defaultLanguage

====
